---- MODULE Spec2Model ----
(***************************************************************************)
(* A model of slicer.py: the decomposition of a motif (symbol -> percent)  *)
(* into uniform purchase steps, and the search that widens the percentage  *)
(* window epsilon until the slop exceeds maxSlop or the deltas run out.    *)
(*                                                                         *)
(* Units.  Percentages (motif values, minpercent, epsilon, deltas) are     *)
(* whole percents.  Money (investment, stepCost, totalizedInvestment,      *)
(* spendage, slop, maxSlop) is in cents; every investment is a whole       *)
(* number of dollars, so investment * minpercent / 100 is a whole number   *)
(* of cents and the integer arithmetic below is the arithmetic of the      *)
(* script without rounding.                                                *)
(*                                                                         *)
(* Symbols are the positions 1..Len(original) of the loaded mapping; a     *)
(* Python dict iterates in insertion order, which is the order of the      *)
(* positions.                                                              *)
(***************************************************************************)
EXTENDS Integers, Sequences, FiniteSets, TLC

(* ------------------------------ bounds --------------------------------- *)

\* The largest number of symbols of a loaded motif.
MaxSyms == 5

\* The loaded percentages are the multiples of WeightStep in 0..100.
WeightStep == 4

(* ------------------------- program constants --------------------------- *)

\* minpercent = 100.0: where the minimum search starts.
MinSearchStartLow == 100 \div 2
MinSearchStart == 100

\* investment * minpercent/100: percent to fraction.
PercentBase == 100

\* "Schwab rule: the minimum spend on a slice is $5.00", in cents.
MinOrderSize == 500

\* lastSlop = -1.00, in cents.
InitialLastSlop == -100

\* maxSlop = 0.00 when -m was not given.
DefaultMaxSlop == 0

(* ------------------------------ inputs --------------------------------- *)

Weights == {w \in 0..PercentBase : w % WeightStep = 0}

RECURSIVE SumSeq(_)
SumSeq(s) == IF s = <<>> THEN 0 ELSE Head(s) + SumSeq(Tail(s))

\* The ascending sequences of n weights, each at least least, that sum to total.
RECURSIVE Ascending(_, _, _)
Ascending(n, total, least) ==
    IF n = 1
    THEN IF total \in Weights /\ total >= least THEN {<<total>>} ELSE {}
    ELSE UNION {{<<w>> \o c : c \in Ascending(n - 1, total - w, w)} :
                    w \in {x \in Weights : x >= least /\ x * n <= total}}

Reverse(s) == [i \in 1..Len(s) |-> s[Len(s) + 1 - i]]

\* The validated motifs: non-negative percentages that sum to 100, loaded in
\* ascending or in descending order of percentage.
Allocations ==
    LET asc == UNION {Ascending(n, PercentBase, 0) : n \in 1..MaxSyms}
    IN  asc \cup {Reverse(a) : a \in asc}

\* -i dollars, in cents.
Investments == {10000, 25000}

\* -m dollars, in cents; given = FALSE when the option is absent (None).
SlopArgs == {[given |-> FALSE, value |-> 0],
             [given |-> TRUE, value |-> 2000],
             [given |-> TRUE, value |-> 100000]}

(* --------------------------- pure helpers ------------------------------ *)

Abs(x) == IF x < 0 THEN -x ELSE x

\* The keys of a mapping in iteration order.
RECURSIVE KeysFrom(_, _, _)
KeysFrom(m, i, n) ==
    IF i > n THEN <<>>
    ELSE (IF i \in DOMAIN m THEN <<i>> ELSE <<>>) \o KeysFrom(m, i + 1, n)

Keys(m, n) == KeysFrom(m, 1, n)

\* for k in motif.keys(): if motif[k] < minpercent: minstock, minpercent = k, motif[k]
RECURSIVE FindMin(_, _, _, _)
FindMin(m, ks, minstock, minpercent) ==
    IF ks = <<>> THEN [minstock |-> minstock, minpercent |-> minpercent]
    ELSE IF m[Head(ks)] < minpercent
         THEN FindMin(m, Tail(ks), Head(ks), m[Head(ks)])
         ELSE FindMin(m, Tail(ks), minstock, minpercent)

MinPercent(m, n) == FindMin(m, Keys(m, n), 0, MinSearchStart).minpercent

\* stepCost = investment * minpercent/100
StepCost(inv, minpercent) == (inv * minpercent) \div PercentBase

\* percent >= minpercent - epsilon and percent <= minpercent + epsilon
InWindow(percent, minpercent, eps) ==
    percent >= minpercent - eps /\ percent <= minpercent + eps

\* The keys popped by the loop over list(motif).
FirstInWindow(m, minpercent, eps) ==
    LET inw == {k \in DOMAIN m : InWindow(m[k], minpercent, eps)}
    IN  {k \in inw : \A j \in inw : k <= j}
DropSet(m, minpercent, eps) ==
    {k \in DOMAIN m : InWindow(m[k], minpercent, eps)}

\* What one pass of the loop adds to spendage[k].
SpendForKey(stepCost, size) == stepCost \div size
SpendIncrement(stepCost, size) == stepCost

\* The mapping left by the loop over list(motif).
Residual(m, minpercent, eps) ==
    [k \in DOMAIN m \ DropSet(m, minpercent, eps) |-> m[k] - minpercent]

\* epsilon = epsilon + <popped delta>
AssignDelta(eps, delta) == delta
WidenEpsilon(eps, delta) == eps + delta

\* if len(deltas) > 0
CanWidenButOne(ds) == Len(ds) > 1
CanWiden(ds) == Len(ds) > 0

\* deltas.pop(0)
PopLast(ds) == [popped |-> ds[Len(ds)], rest |-> SubSeq(ds, 1, Len(ds) - 1)]
PopDelta(ds) == [popped |-> Head(ds), rest |-> Tail(ds)]

(* ------------------------------- state --------------------------------- *)

VARIABLES
    original,             \* the loaded motif
    investment,           \* -i
    maxSlopArg,           \* -m, when given
    maxSlop,
    epsilon,
    deltas,
    first,
    done,
    lastSlop,
    slop,
    output,               \* the steps captured in this iteration
    step,
    totalizedInvestment,
    spendage,
    motif,
    pc,                   \* "outer": at while not done; "inner": at while motif.keys()
    printed,              \* the reports printed so far
    runs                  \* history: one record per finished iteration

vars == <<original, investment, maxSlopArg, maxSlop, epsilon, deltas, first,
          done, lastSlop, slop, output, step, totalizedInvestment, spendage,
          motif, pc, printed, runs>>

inputs == <<original, investment, maxSlopArg, maxSlop>>

Syms == DOMAIN original
NSyms == Len(original)

Init ==
    /\ original \in Allocations
    /\ investment \in Investments
    /\ maxSlopArg \in SlopArgs
    /\ maxSlop = IF maxSlopArg.given THEN maxSlopArg.value ELSE DefaultMaxSlop
    /\ epsilon = 0
    /\ deltas = <<>>
    /\ first = TRUE
    /\ done = FALSE
    /\ lastSlop = InitialLastSlop
    /\ slop = 0
    /\ output = <<>>
    /\ step = 1
    /\ totalizedInvestment = 0
    /\ spendage = <<>>
    /\ motif = <<>>
    /\ pc = "outer"
    /\ printed = <<>>
    /\ runs = <<>>

\* The head of the outer loop: a fresh output, step counter, total, spendage
\* and a copy of the original distribution.
BeginIteration ==
    /\ pc = "outer"
    /\ ~done
    /\ output' = <<>>
    /\ step' = 1
    /\ totalizedInvestment' = 0
    /\ spendage' = <<>>
    /\ motif' = original
    /\ pc' = "inner"
    /\ UNCHANGED <<inputs, epsilon, deltas, first, done, lastSlop, slop,
                   printed, runs>>

\* One pass of the body of while motif.keys().
InnerStep ==
    /\ pc = "inner"
    /\ DOMAIN motif # {}
    /\ LET minpercent == MinPercent(motif, NSyms)
           stepCost   == StepCost(investment, minpercent)
           size       == Cardinality(DOMAIN motif)
           dropped    == DropSet(motif, minpercent, epsilon)
       IN  /\ deltas' = IF first THEN Append(deltas, minpercent) ELSE deltas
           /\ totalizedInvestment' = totalizedInvestment + stepCost * size
           /\ output' = Append(output,
                               [step       |-> step,
                                stepCost   |-> stepCost,
                                minpercent |-> minpercent,
                                active     |-> DOMAIN motif,
                                dropped    |-> dropped])
           /\ spendage' =
                  [k \in DOMAIN spendage \cup DOMAIN motif |->
                      IF k \in DOMAIN motif
                      THEN (IF k \in DOMAIN spendage THEN spendage[k] ELSE 0)
                           + SpendIncrement(stepCost, size)
                      ELSE spendage[k]]
           /\ motif' = Residual(motif, minpercent, epsilon)
           /\ step' = step + 1
    /\ UNCHANGED <<inputs, epsilon, first, done, lastSlop, slop, pc,
                   printed, runs>>

\* After the inner loop: the slop, the report, and the widen-or-stop decision.
FinishIteration ==
    /\ pc = "inner"
    /\ DOMAIN motif = {}
    /\ LET newSlop == Abs(investment - totalizedInvestment)
           report  == [slop |-> newSlop, steps |-> output, spend |-> spendage]
           widen   == newSlop <= maxSlop /\ CanWiden(deltas)
       IN  /\ slop' = newSlop
           /\ first' = FALSE
           /\ printed' = IF newSlop > lastSlop THEN Append(printed, report)
                         ELSE printed
           /\ lastSlop' = newSlop
           /\ runs' = Append(runs, [epsilon |-> epsilon,
                                    steps   |-> output,
                                    slop    |-> newSlop,
                                    spend   |-> spendage,
                                    shown   |-> newSlop > lastSlop])
           /\ IF widen
              THEN /\ epsilon' = WidenEpsilon(epsilon, PopDelta(deltas).popped)
                   /\ deltas' = PopDelta(deltas).rest
                   /\ done' = FALSE
              ELSE /\ done' = TRUE
                   /\ UNCHANGED <<epsilon, deltas>>
           /\ pc' = "outer"
    /\ UNCHANGED <<inputs, output, step, totalizedInvestment, spendage, motif>>

Next == BeginIteration \/ InnerStep \/ FinishIteration

Spec == Init /\ [][Next]_vars

(* ------------------- the decomposition as a function ------------------- *)

\* One run of while motif.keys() from mapping m with window eps: the
\* per-unit weights of its steps and the total spent.
RECURSIVE Decompose(_, _, _, _, _)
Decompose(m, eps, inv, n, acc) ==
    IF DOMAIN m = {} THEN acc
    ELSE LET minpercent == MinPercent(m, n)
         IN  Decompose(Residual(m, minpercent, eps), eps, inv, n,
                       [mins  |-> Append(acc.mins, minpercent),
                        total |-> acc.total + StepCost(inv, minpercent)
                                              * Cardinality(DOMAIN m)])

Plan(eps) == Decompose(original, eps, investment, NSyms,
                       [mins |-> <<>>, total |-> 0])

PlanSlop(eps) == Abs(investment - Plan(eps).total)
PlanSteps(eps) == Len(Plan(eps).mins)

\* The windows of the search: 0 and the cumulative sums of the deltas
\* recorded by the epsilon = 0 run.
EpsSequence ==
    LET ds == Plan(0).mins
    IN  {SumSeq(SubSeq(ds, 1, i)) : i \in 0..Len(ds)}

(* ------------------------------ claims --------------------------------- *)

InnerDone == pc = "inner" /\ DOMAIN motif = {}
Stopped == pc = "outer" /\ done

\* The sum of the per-unit weights of the steps of out in which k was active.
RECURSIVE ActiveWeight(_, _)
ActiveWeight(k, out) ==
    IF out = <<>> THEN 0
    ELSE (IF k \in Head(out).active THEN Head(out).minpercent ELSE 0)
         + ActiveWeight(k, Tail(out))

DistinctWeights == {original[k] : k \in Syms}

\* C1: at the end of a decomposition run with epsilon = 0, for every symbol
\* the per-unit weights of the steps in which it was active sum to its
\* original weight, its spendage is investment * weight / 100, and the
\* run's slop is 0.
C1_Reconstruction ==
    (InnerDone /\ epsilon = 0) =>
        /\ \A k \in Syms :
              /\ ActiveWeight(k, output) = original[k]
              /\ k \in DOMAIN spendage
              /\ spendage[k] * PercentBase = investment * original[k]
        /\ Abs(investment - totalizedInvestment) = 0

C1_Witness ==
    /\ InnerDone /\ epsilon = 0
    /\ NSyms >= 3 /\ Len(output) >= 3
    /\ \E k \in Syms : spendage[k] > output[1].stepCost

\* C2: every pass of the inner loop, at every epsilon the search reaches,
\* removes at least one symbol from motif, removes every symbol whose
\* residual is the minimum, and the run never has more steps than the
\* allocation has symbols.
C2_StepRemovesSymbol ==
    [][(pc = "inner" /\ DOMAIN motif # {}) =>
          /\ Cardinality(DOMAIN motif') < Cardinality(DOMAIN motif)
          /\ \A k \in DOMAIN motif :
                (\A j \in DOMAIN motif : motif[k] <= motif[j])
                    => k \notin DOMAIN motif'
          /\ Len(output') <= NSyms]_vars

C2_Witness ==
    /\ pc = "inner" /\ epsilon > 0
    /\ Len(output) >= 2
    /\ DOMAIN motif # {}
    /\ Cardinality(output[1].dropped) >= 2

\* C3: the slop of an iteration of the search is never smaller than the
\* slop of the iteration before it.
C3_SlopNonDecreasing ==
    \A i \in 1..(Len(runs) - 1) : runs[i + 1].slop >= runs[i].slop

\* The last iteration whose slop was within maxSlop.
LastWithinBudget ==
    LET ok == {i \in 1..Len(runs) : runs[i].slop <= maxSlop}
    IN  CHOOSE i \in ok : \A j \in ok : j <= i

\* C4: when the search has stopped, the last iteration within the slop
\* budget has no more steps than the plan of any window of the search's
\* sequence whose slop is within the budget.
C4_CoarsestWithinBudget ==
    Stopped =>
        \A e \in EpsSequence :
            PlanSlop(e) <= maxSlop =>
                Len(runs[LastWithinBudget].steps) <= PlanSteps(e)

\* C5: from one iteration of the search to the next, epsilon never
\* decreases and the number of steps never grows.
C5_EpsilonUpStepsDown ==
    \A i \in 1..(Len(runs) - 1) :
        /\ runs[i + 1].epsilon >= runs[i].epsilon
        /\ Len(runs[i + 1].steps) <= Len(runs[i].steps)

C5_Witness ==
    /\ Len(runs) >= 3
    /\ \E i \in 1..(Len(runs) - 1) :
          /\ runs[i + 1].epsilon > runs[i].epsilon
          /\ Len(runs[i + 1].steps) < Len(runs[i].steps)
    /\ \E i \in 1..(Len(runs) - 1) :
          /\ runs[i + 1].epsilon > runs[i].epsilon
          /\ Len(runs[i + 1].steps) = Len(runs[i].steps)

\* C6: no emitted step has a reported dollar amount below the minimum
\* order size of 5.00.
C6_MinimumOrderEnforced ==
    \A i \in 1..Len(output) : output[i].stepCost >= MinOrderSize

\* C7: when -m is not given, epsilon is never increased above 0 and the
\* only plan computed and printed is the exact plan of epsilon = 0.
C7_NoSlopOnlyExactPlan ==
    ~maxSlopArg.given =>
        /\ epsilon = 0
        /\ \A i \in 1..Len(runs) : runs[i].epsilon = 0
        /\ \A i \in 1..Len(printed) : printed[i].slop = 0

\* C8: when the search stops with the slop within maxSlop (the deltas are
\* used up), the plan of the final iteration is a single step in which
\* every symbol is active and dropped, and every symbol is charged the
\* same amount.
C8_ExhaustionSingleStep ==
    (Stopped /\ slop <= maxSlop) =>
        /\ deltas = <<>>
        /\ Len(output) = 1
        /\ output[1].active = Syms
        /\ output[1].dropped = Syms
        /\ DOMAIN spendage = Syms
        /\ \A j, k \in Syms : spendage[j] = spendage[k]

C8_Witness ==
    /\ Stopped /\ slop <= maxSlop /\ deltas = <<>>
    /\ NSyms >= 3
    /\ Len(runs) >= 4
    /\ Len(runs[1].steps) >= 3
    /\ Len(output) = 1

\* C9: a decomposition run with epsilon = 0 has at most as many steps as
\* the allocation has distinct weights, hence at most one per symbol.
C9_StepsAtMostDistinctWeights ==
    (pc = "inner" /\ epsilon = 0) =>
        /\ Len(output) <= Cardinality(DistinctWeights)
        /\ Len(output) <= NSyms

C9_Witness ==
    /\ InnerDone /\ epsilon = 0
    /\ Cardinality(DistinctWeights) >= 2
    /\ Cardinality(DistinctWeights) < NSyms
    /\ Len(output) = Cardinality(DistinctWeights)

\* The deltas still in the list when iteration i of the search has ended.
RemainingDeltas(i) ==
    {runs[1].steps[j].minpercent : j \in i..Len(runs[1].steps)}

\* C10 as stated: each delta added to epsilon is the smallest of the deltas
\* still in the list.
C10_PopsSmallestDelta ==
    \A i \in 1..(Len(runs) - 1) :
        \A d \in RemainingDeltas(i) :
            runs[i + 1].epsilon - runs[i].epsilon <= d

\* C10 amended: each delta added to epsilon is the oldest of the deltas
\* still in the list: the i-th widening adds the per-unit weight of the
\* i-th step of the epsilon = 0 run.
C10_PopsOldestDelta ==
    \A i \in 1..(Len(runs) - 1) :
        runs[i + 1].epsilon - runs[i].epsilon = runs[1].steps[i].minpercent

C10_Witness ==
    /\ Len(runs) >= 3
    /\ \E i \in 1..(Len(runs) - 1) :
          \E d \in RemainingDeltas(i) :
              runs[i + 1].epsilon - runs[i].epsilon > d

====
